---- MODULE Spec2Model ----
(***************************************************************************)
(* A model of the ID3v2 tag reader of tmthrgd/id3v2: the syncsafe codec,   *)
(* the tag locator id3Split driven by a bufio.Scanner, Scan's block and     *)
(* frame decoding, Frames.Lookup, Frame.Text and the scratch-buffer pool.   *)
(* Bytes are the integers 0..255, byte slices are sequences of bytes.       *)
(***************************************************************************)
EXTENDS Integers, Sequences, FiniteSets, TLC

VARIABLES
    \* --- one Scan call over one byte stream
    src,        \* how the stream was built (ghost): a record, see SrcSet
    stream,     \* all the bytes the reader r will deliver
    rest,       \* the bytes r has not delivered yet
    win,        \* bufio.Scanner: s.buf[s.start:s.end]
    serr,       \* bufio.Scanner: s.err
    pc,         \* position inside Scan
    hdr,        \* Scan: header, version and flags of the block being decoded
    data,       \* Scan: the local slice data
    frames,     \* Scan: the local variable frames
    retFrames,  \* Scan's first result
    retErr,     \* Scan's second result ("nil" when none, "panic" for a run-time panic)
    \* --- a pure function applied to an input
    inp,        \* the input drawn by Init
    out,        \* the result
    phase,      \* "in" before the call, "out" after
    \* --- concurrent Scan calls sharing bufPool
    pool,       \* the buffers bufPool holds
    held,       \* held[p]: the buffer invocation p got from bufPool.Get (0: none)
    ppc,        \* ppc[p]: position of invocation p
    puts,       \* puts[p]: how many times invocation p's current call has called bufPool.Put
    nextBuf     \* how many buffers bufPool.New has allocated

scanVars == <<src, stream, rest, win, serr, pc, hdr, data, frames, retFrames, retErr>>
fnVars   == <<inp, out, phase>>
poolVars == <<pool, held, ppc, puts, nextBuf>>
vars     == <<scanVars, fnVars, poolVars>>

(***************************************************************************)
(* Integer helpers: Go's fixed-width unsigned arithmetic.                  *)
(***************************************************************************)
Pow2(n) == 2 ^ n

RECURSIVE BitAnd(_, _)
BitAnd(a, b) ==
    IF a = 0 \/ b = 0 THEN 0
    ELSE (IF a % 2 = 1 /\ b % 2 = 1 THEN 1 ELSE 0) + 2 * BitAnd(a \div 2, b \div 2)

RECURSIVE BitOr(_, _)
BitOr(a, b) ==
    IF a = 0 THEN b
    ELSE IF b = 0 THEN a
    ELSE (IF a % 2 = 1 \/ b % 2 = 1 THEN 1 ELSE 0) + 2 * BitOr(a \div 2, b \div 2)

\* x &^ m on w-bit values
BitClear(x, m) == x - BitAnd(x, m)

\* A uint32 is the pair <<high 16 bits, low 16 bits>>, so that every 32-bit
\* value is represented and the arithmetic wraps at 2^32 as Go's does.
ToU32(n) == <<(n \div 65536) % 65536, n % 65536>>

U32Max == <<65535, 65535>>

\* int(x) on a 64-bit platform is x; it is a number of the model when x < 2^31
FitsInt(x) == x[1] < 32768
IntOf(x) == x[1] * 65536 + x[2]

\* n < k + int(x), for a length n and a small k
LessThanPlus(n, k, x) == ~FitsInt(x) \/ n < k + IntOf(x)

\* x + k on uint32, k small
U32Add(x, k) ==
    LET lo == x[2] + k IN <<(x[1] + (lo \div 65536)) % 65536, lo % 65536>>

\* x | y on uint32
U32Or(x, y) == <<BitOr(x[1], y[1]), BitOr(x[2], y[2])>>

\* uint32(b) << n, for a byte b
Shl32(b, n) ==
    IF n >= 16 THEN <<(b * Pow2(n - 16)) % 65536, 0>>
    ELSE ToU32(b * Pow2(n))

\* s[from:] and s[:to] of Go, on 1-based sequences (from, to are Go's 0-based bounds)
From(s, from) == SubSeq(s, from + 1, Len(s))
Upto(s, to) == SubSeq(s, 1, to)

\* binary.BigEndian.Uint32(b), binary.BigEndian.Uint16(b)
BEUint32(b) ==
    U32Or(U32Or(Shl32(b[1], 24), Shl32(b[2], 16)), U32Or(Shl32(b[3], 8), ToU32(b[4])))

BEUint16(b) == BitOr((b[1] * 256) % 65536, b[2])

(***************************************************************************)
(* Program constants.                                                       *)
(***************************************************************************)
Version24 == 4
Version23 == 3

tagFlagUnsynchronisation == 128
tagFlagExtendedHeader == 64
tagFlagExperimental == 32
tagFlagFooter == 16
knownTagFlags ==
    BitOr(BitOr(tagFlagUnsynchronisation, tagFlagExtendedHeader),
          BitOr(tagFlagExperimental, tagFlagFooter))

FrameFlagV24Unsynchronisation == 2
encodingFrameFlags == 255

textEncodingISO88591 == 0
textEncodingUTF16 == 1
textEncodingUTF16BE == 2
textEncodingUTF8 == 3

syncsafeInvalid == U32Max
invalidFrameID == U32Max

id3Token == <<73, 68, 51>>

(***************************************************************************)
(* syncsafe                                                                 *)
(***************************************************************************)
syncsafeNoCheck3(d) ==
    IF BitAnd(d[1], 128) # 0 \/ BitAnd(d[2], 128) # 0 \/ BitAnd(d[3], 128) # 0
    THEN syncsafeInvalid
    ELSE U32Or(U32Or(Shl32(d[1], 21), Shl32(d[2], 14)), U32Or(Shl32(d[3], 7), ToU32(d[4])))

syncsafe(d) ==
    IF BitAnd(d[1], 128) # 0 \/ BitAnd(d[2], 128) # 0
       \/ BitAnd(d[3], 128) # 0 \/ BitAnd(d[4], 128) # 0
    THEN syncsafeInvalid
    ELSE U32Or(U32Or(Shl32(d[1], 21), Shl32(d[2], 14)), U32Or(Shl32(d[3], 7), ToU32(d[4])))

(***************************************************************************)
(* The tag locator: the split function Scan gives to bufio.Scanner.        *)
(***************************************************************************)
\* bytes.Index(d, sep): the 0-based index of the first occurrence, or -1
RECURSIVE IndexFrom(_, _, _)
IndexFrom(d, sep, i) ==
    IF i + Len(sep) > Len(d) THEN -1
    ELSE IF SubSeq(d, i + 1, i + Len(sep)) = sep THEN i
    ELSE IndexFrom(d, sep, i + 1)

Index(d, sep) == IndexFrom(d, sep, 0)

\* the three results of a split function
NoToken(adv) == [advance |-> adv, emit |-> FALSE, token |-> <<>>, err |-> "nil"]
Token(adv, t) == [advance |-> adv, emit |-> TRUE, token |-> t, err |-> "nil"]
SplitErr(e) == [advance |-> 0, emit |-> FALSE, token |-> <<>>, err |-> e]

\* what id3Split answers when the bytes it needs are not in the buffer
id3SplitShortNoEOF(i, atEOF) == NoToken(i)

id3SplitShort(i, atEOF) ==
    IF atEOF THEN SplitErr("ErrUnexpectedEOF") ELSE NoToken(i)

\* what id3Split answers when the buffer holds no "ID3"
id3SplitNoMatchStrict(d, atEOF) ==
    IF Len(d) < 2 THEN (IF atEOF /\ Len(d) > 0 THEN SplitErr("ErrUnexpectedEOF") ELSE NoToken(0))
    ELSE NoToken(Len(d) - 2)

id3SplitNoMatch(d, atEOF) ==
    IF Len(d) < 2 THEN NoToken(0) ELSE NoToken(Len(d) - 2)

id3Split(d, atEOF) ==
    LET i == Index(d, id3Token) IN
    IF i = -1 THEN id3SplitNoMatch(d, atEOF)
    ELSE
      LET dd == From(d, i) IN
      IF Len(dd) < 10 THEN id3SplitShort(i, atEOF)
      ELSE
        LET size == syncsafe(From(dd, 6)) IN
        IF dd[4] = 255 \/ dd[5] = 255 \/ size = syncsafeInvalid THEN NoToken(i + 3)
        ELSE IF dd[4] > Version24 THEN NoToken(i + 3)
        ELSE IF dd[4] < Version23 THEN NoToken(i + 3)
        ELSE IF BitClear(dd[6], knownTagFlags) # 0 THEN NoToken(i + 3)
        ELSE
          LET total == IF BitAnd(dd[6], tagFlagFooter) = tagFlagFooter
                       THEN U32Add(size, 10) ELSE size
          IN  IF LessThanPlus(Len(dd), 10, total) THEN id3SplitShort(i, atEOF)
              ELSE Token(i + 10 + IntOf(total), Upto(dd, IntOf(U32Add(total, 10))))

(***************************************************************************)
(* Frame identifiers.                                                       *)
(***************************************************************************)
validIDByte(b) == (b >= 65 /\ b <= 90) \/ (b >= 48 /\ b <= 57)

\* frameID(data): data is the slice the caller passes, and the padding test
\* ranges over all of it
frameID(d) ==
    IF validIDByte(d[1]) /\ validIDByte(d[2]) /\ validIDByte(d[3])
       /\ (validIDByte(d[4]) \/ d[4] = 0)
    THEN BEUint32(d)
    ELSE IF \E k \in 1..Len(d) : d[k] # 0 THEN invalidFrameID
    ELSE ToU32(0)

(***************************************************************************)
(* Unsynchronisation: the loop of Scan that copies a frame's payload,      *)
(* dropping a 0x00 that follows a 0xFF.  d is the remaining body (the      *)
(* frame header is d[0:10]), size the declared size, i the loop variable.  *)
(* The result is the bytes appended from i on and the (0-based) indices of *)
(* d the loop reads.                                                        *)
(***************************************************************************)
ByteAt(d, k) == IF k < Len(d) THEN d[k + 1] ELSE -1

RECURSIVE DestuffFromNoGuard(_, _, _)
DestuffFromNoGuard(d, size, i) ==
    IF i >= size THEN [Data |-> <<>>, reads |-> {}]
    ELSE
      LET v == d[10 + i + 1]
          look == v = 255
          skip == look /\ ByteAt(d, 10 + i + 1) = 0
          r == DestuffFromNoGuard(d, size, IF skip THEN i + 2 ELSE i + 1)
      IN  [Data |-> <<v>> \o r.Data,
           reads |-> {10 + i} \cup (IF look THEN {10 + i + 1} ELSE {}) \cup r.reads]

RECURSIVE DestuffFrom(_, _, _)
DestuffFrom(d, size, i) ==
    IF i >= size THEN [Data |-> <<>>, reads |-> {}]
    ELSE
      LET v == d[10 + i + 1]
          look == v = 255 /\ i + 1 < size
          skip == look /\ d[10 + i + 1 + 1] = 0
          r == DestuffFrom(d, size, IF skip THEN i + 2 ELSE i + 1)
      IN  [Data |-> <<v>> \o r.Data,
           reads |-> {10 + i} \cup (IF look THEN {10 + i + 1} ELSE {}) \cup r.reads]

Destuff(d, size) == DestuffFrom(d, size, 0)

(***************************************************************************)
(* Scan: decoding one located block (the body of the for s.Scan() loop).   *)
(***************************************************************************)
Frame(id, version, flags, d) == [ID |-> id, Version |-> version, Flags |-> flags, Data |-> d]

NoHdr == [header |-> <<>>, version |-> 0, flags |-> 0]

hasFlag(flags, f) == BitAnd(flags, f) = f

\* header, footer and extended header of the token t
blockHeader(t) ==
    LET header == Upto(t, 10)
        d0 == From(t, 10)
        version == header[4]
        flags == header[6]
        h == [header |-> header, version |-> version, flags |-> flags]
        Panic == [kind |-> "panic", err |-> "panic", hdr |-> h, data |-> <<>>]
        Err(e) == [kind |-> "err", err |-> e, hdr |-> h, data |-> <<>>]
        Ok(d) == [kind |-> "ok", err |-> "nil", hdr |-> h, data |-> d]
    IN
    IF Len(t) < 10 \/ Upto(header, 3) # id3Token THEN Panic
    ELSE IF version \notin {Version24, Version23} THEN Panic
    ELSE IF hasFlag(flags, tagFlagFooter) /\ Len(d0) < 10 THEN Panic
    ELSE
      LET footer == IF hasFlag(flags, tagFlagFooter) THEN From(d0, Len(d0) - 10) ELSE <<>>
          d1 == IF hasFlag(flags, tagFlagFooter) THEN Upto(d0, Len(d0) - 10) ELSE d0
      IN
      IF hasFlag(flags, tagFlagFooter)
         /\ (Upto(footer, 3) # <<51, 68, 73>> \/ From(header, 3) # From(footer, 3))
      THEN Err("invalid footer")
      ELSE IF ~hasFlag(flags, tagFlagExtendedHeader) THEN Ok(d1)
      ELSE IF Len(d1) < 4 THEN Panic
      ELSE
        LET size == IF version = Version24 THEN syncsafe(d1)
                    ELSE U32Add(BEUint32(d1), 4)
        IN
        IF version = Version24 /\ size = syncsafeInvalid
        THEN Err("invalid extended header size")
        ELSE IF LessThanPlus(Len(d1), 0, size) THEN Err("invalid extended header size")
        ELSE Ok(From(d1, IntOf(size)))

\* the condition of the frames loop
framesLoopCond(d) == Len(d) > 10

\* the payload and flags Scan stores for a frame of declared size at the head of d
framePayloadKeepFlags(version, tflags, fflags, d, size) ==
    IF hasFlag(tflags, tagFlagUnsynchronisation)
       \/ (version = Version24 /\ BitAnd(fflags, FrameFlagV24Unsynchronisation) # 0)
    THEN [Data |-> Destuff(d, size).Data, Flags |-> fflags]
    ELSE [Data |-> SubSeq(d, 11, 10 + size), Flags |-> fflags]

framePayload(version, tflags, fflags, d, size) ==
    IF hasFlag(tflags, tagFlagUnsynchronisation)
       \/ (version = Version24 /\ BitAnd(fflags, FrameFlagV24Unsynchronisation) # 0)
    THEN [Data |-> Destuff(d, size).Data,
          Flags |-> IF version = Version24
                    THEN BitClear(fflags, FrameFlagV24Unsynchronisation) ELSE fflags]
    ELSE [Data |-> SubSeq(d, 11, 10 + size), Flags |-> fflags]

\* one iteration of the frames loop on the remaining body d (Len(d) > 10)
frameStep(version, tflags, d) ==
    LET id == frameID(d)
        fflags == BEUint16(From(d, 8))
        Err(e) == [kind |-> "err", err |-> e, frame |-> <<>>, data |-> d]
    IN
    IF id = ToU32(0) THEN [kind |-> "break", err |-> "nil", frame |-> <<>>, data |-> d]
    ELSE IF id = invalidFrameID THEN Err("invalid frame id")
    ELSE
      LET size == IF version = Version24 THEN syncsafe(From(d, 4)) ELSE BEUint32(From(d, 4))
      IN
      IF version = Version24 /\ size = syncsafeInvalid THEN Err("invalid frame size")
      ELSE IF LessThanPlus(Len(d), 10, size)
      THEN Err("frame size exceeds length of tag data")
      ELSE
        LET p == framePayload(version, tflags, fflags, d, IntOf(size)) IN
        [kind |-> "frame", err |-> "nil",
         frame |-> <<Frame(id, version, p.Flags, p.Data)>>,
         data |-> From(d, IntOf(U32Add(size, 10)))]

\* frames = append(frames, frame)
appendFramePrepend(fs, f) == <<f>> \o fs

appendFrame(fs, f) == Append(fs, f)

\* the checks after the frames loop
paddingCheck(tflags, d) ==
    IF hasFlag(tflags, tagFlagFooter) /\ Len(d) # 0 THEN "padding with footer"
    ELSE IF \E k \in 1..Len(d) : d[k] # 0 THEN "invalid padding"
    ELSE "nil"

\* the frames Scan returns beside an error: return nil, err
errFramesKeep(fs) == fs

errFrames(fs) == <<>>

\* Scanner.Err()
scannerErr(e) == IF e = "EOF" THEN "nil" ELSE e

(***************************************************************************)
(* The byte streams Scan is run on.  A stream is built from a description  *)
(* (src): bytes before the first block, tag blocks written out as the      *)
(* ID3v2 layout prescribes (a frame's payload is written stuffed where an  *)
(* unsynchronisation flag covers it), optionally cut short or with one     *)
(* byte overwritten.                                                        *)
(***************************************************************************)
MaxRead == 7       \* the largest partial read the reader delivers
MaxRawLen == 4     \* the longest stream enumerated byte by byte
LongPad == 11      \* a padding longer than a frame header
MaxFramesPerBlock == 2

SyncsafeEnc(n) ==
    <<(n \div Pow2(21)) % 128, (n \div Pow2(14)) % 128, (n \div Pow2(7)) % 128, n % 128>>

BEEnc(n) ==
    <<(n \div Pow2(24)) % 256, (n \div Pow2(16)) % 256, (n \div Pow2(8)) % 256, n % 256>>

\* unsynchronisation as a writer applies it: a 0x00 after every 0xFF
RECURSIVE Stuff(_)
Stuff(P) ==
    IF P = <<>> THEN <<>>
    ELSE IF Head(P) = 255 THEN <<255, 0>> \o Stuff(Tail(P))
    ELSE <<Head(P)>> \o Stuff(Tail(P))

Zeros(n) == [k \in 1..n |-> 0]

RECURSIVE Flatten(_)
Flatten(ss) == IF ss = <<>> THEN <<>> ELSE Head(ss) \o Flatten(Tail(ss))

Stuffed(version, tflags, f) ==
    hasFlag(tflags, tagFlagUnsynchronisation)
    \/ (version = Version24 /\ BitAnd(f.flags, FrameFlagV24Unsynchronisation) # 0)

EncFrame(version, tflags, f) ==
    LET disk == IF Stuffed(version, tflags, f) THEN Stuff(f.payload) ELSE f.payload IN
    f.id \o (IF version = Version24 THEN SyncsafeEnc(Len(disk)) ELSE BEEnc(Len(disk)))
         \o <<f.flags \div 256, f.flags % 256>> \o disk

EncBlock(b) ==
    LET body == b.ext \o Flatten([k \in 1..Len(b.frames) |->
                                     EncFrame(b.version, b.flags, b.frames[k])])
                      \o b.pad
        h == <<b.version, 0, b.flags>> \o SyncsafeEnc(Len(body))
    IN  id3Token \o h \o body
        \o (IF hasFlag(b.flags, tagFlagFooter) THEN <<51, 68, 73>> \o h ELSE <<>>)

Overwrite(s, pos, val) == IF pos = 0 THEN s ELSE [s EXCEPT ![pos] = val]

StreamOf(d) ==
    LET full == d.pre \o Flatten([k \in 1..Len(d.blocks) |-> d.gap \o EncBlock(d.blocks[k])])
        mutated == Overwrite(full, d.mutPos, d.mutVal)
    IN  Upto(mutated, Len(mutated) - d.cut)

\* ---- the descriptions enumerated
TIT2 == <<84, 73, 84, 50>>
TPE1 == <<84, 80, 69, 49>>

FrameDescs ==
    { [id |-> TIT2, flags |-> 0, payload |-> <<3, 65>>],
      [id |-> TPE1, flags |-> 0, payload |-> <<255, 0>>],
      [id |-> TIT2, flags |-> FrameFlagV24Unsynchronisation, payload |-> <<1, 255>>],
      [id |-> TPE1, flags |-> 0, payload |-> <<>>] }

FrameLists ==
    UNION { [1..n -> FrameDescs] : n \in 0..MaxFramesPerBlock }

ExtFor(version, tflags) ==
    IF ~hasFlag(tflags, tagFlagExtendedHeader) THEN <<>>
    ELSE IF version = Version24 THEN <<0, 0, 0, 6, 1, 0>>
    ELSE <<0, 0, 0, 6, 0, 0, 0, 0, 0, 0>>

\* the stream is the blocks as written: nothing cut, nothing overwritten,
\* every extended header the one its block's version and flags prescribe
Intact(d) ==
    /\ d.cut = 0 /\ d.mutPos = 0
    /\ \A k \in 1..Len(d.blocks) :
          d.blocks[k].ext = ExtFor(d.blocks[k].version, d.blocks[k].flags)

BlockDesc(version, tflags, fs, pad) ==
    [version |-> version, flags |-> tflags, ext |-> ExtFor(version, tflags),
     frames |-> fs, pad |-> pad]

TagFlagSets == {0, tagFlagUnsynchronisation, tagFlagExtendedHeader, tagFlagFooter}

\* paddings: zero bytes, and zero bytes with a single byte set
Pads(n) == {Zeros(n)} \cup { [Zeros(n) EXCEPT ![k] = 1] : k \in 1..n }

Src(pre, gap, blocks, cut, mutPos, mutVal) ==
    [pre |-> pre, gap |-> gap, blocks |-> blocks, cut |-> cut,
     mutPos |-> mutPos, mutVal |-> mutVal]

\* every stream of at most MaxRawLen bytes over the bytes of "ID3" and 0x00
RawSrcs ==
    { Src(raw, <<>>, <<>>, 0, 0, 0) :
        raw \in UNION { [1..n -> {73, 68, 51, 0}] : n \in 0..MaxRawLen } }

\* one block, every combination of version, flags and frames
OneBlockSrcs ==
    { Src(<<>>, <<>>, <<BlockDesc(v, tf, fs, pad)>>, 0, 0, 0) :
        v \in {Version23, Version24}, tf \in TagFlagSets, fs \in FrameLists,
        pad \in {Zeros(2)} }

\* one block without footer, every padding
PaddedSrcs ==
    { Src(<<>>, <<>>, <<BlockDesc(v, 0, fs, pad)>>, 0, 0, 0) :
        v \in {Version23, Version24},
        fs \in { f \in FrameLists : Len(f) <= 1 },
        pad \in Pads(1) \cup Pads(2) \cup Pads(LongPad) }

B1 == BlockDesc(Version24, 0, <<[id |-> TIT2, flags |-> 0, payload |-> <<3, 65>>]>>, <<>>)
B2 == BlockDesc(Version23, 0, <<[id |-> TPE1, flags |-> 0, payload |-> <<255, 0>>]>>, <<0>>)
B3 == BlockDesc(Version24, tagFlagFooter,
                <<[id |-> TIT2, flags |-> FrameFlagV24Unsynchronisation,
                   payload |-> <<1, 255>>]>>, <<>>)
B4 == BlockDesc(Version24, tagFlagExtendedHeader,
                <<[id |-> TIT2, flags |-> 0, payload |-> <<3, 66>>]>>, <<0, 0>>)

SampleBlocks == {B1, B2, B3, B4}

\* two blocks, with and without bytes before each
TwoBlockSrcs ==
    { Src(<<>>, gap, <<b1, b2>>, 0, 0, 0) :
        b1 \in SampleBlocks, b2 \in SampleBlocks, gap \in {<<>>, <<73, 68, 0>>} }

BaseSrcs ==
    { Src(<<>>, <<>>, <<b>>, 0, 0, 0) : b \in SampleBlocks }
    \cup { Src(<<>>, <<0, 73>>, <<B3>>, 0, 0, 0), Src(<<>>, <<>>, <<B1, B2>>, 0, 0, 0),
           Src(<<>>, <<>>, <<B4, B3>>, 0, 0, 0) }

\* the streams above, cut short by 1..Len bytes
CutSrcs ==
    UNION { { [d EXCEPT !.cut = c] : c \in 1..Len(StreamOf(d)) } : d \in BaseSrcs }

\* the streams above, with one byte overwritten
MutVals == {0, 1, 128, 255}

MutSrcs ==
    UNION { { [d EXCEPT !.mutPos = q, !.mutVal = v] :
                q \in 1..Len(StreamOf(d)), v \in MutVals } :
            d \in { b \in BaseSrcs : Len(b.blocks) = 1 } }

\* two blocks, a byte of the second one overwritten
MutSecondSrcs ==
    LET d == Src(<<>>, <<>>, <<B1, B2>>, 0, 0, 0) IN
    { [d EXCEPT !.mutPos = q, !.mutVal = 1] :
        q \in (Len(EncBlock(B1)) + 11)..Len(StreamOf(d)) }

\* one block that ends with a frame of declared size 0, nothing after it
EmptyFrame == [id |-> TPE1, flags |-> 0, payload |-> <<>>]

TightSrcs ==
    { Src(<<>>, <<>>, <<BlockDesc(v, tf, fs \o <<EmptyFrame>>, <<>>)>>, 0, 0, 0) :
        v \in {Version23, Version24}, tf \in {0, tagFlagFooter},
        fs \in { f \in FrameLists : Len(f) <= 1 } }

\* one block whose extended-header flag is set over a body of fewer than 4
\* bytes, and one with a footer and declared size 0
ShortExtSrcs ==
    { Src(<<>>, <<>>, <<[BlockDesc(v, tf, <<>>, <<>>) EXCEPT !.ext = Zeros(n)]>>, 0, 0, 0) :
        v \in {Version23, Version24},
        tf \in {tagFlagExtendedHeader, tagFlagExtendedHeader + tagFlagFooter},
        n \in 0..3 }
    \cup { Src(<<>>, <<>>, <<BlockDesc(v, tagFlagFooter, <<>>, <<>>)>>, 0, 0, 0) :
              v \in {Version23, Version24} }

\* v2.3 blocks with an extended header: size fields from 0 to 0xFFFFFFFF
ExtSizeFields ==
    { <<0, 0, 0, 0>>, <<0, 0, 0, 6>>, <<0, 0, 0, 7>>, <<0, 0, 1, 0>>,
      <<127, 255, 255, 252>>, <<255, 255, 255, 251>>, <<255, 255, 255, 252>>,
      <<255, 255, 255, 253>>, <<255, 255, 255, 255>> }

ExtV23Srcs ==
    { Src(<<>>, <<>>,
          <<[BlockDesc(Version23, tagFlagExtendedHeader, fs, <<>>)
                EXCEPT !.ext = sz \o Zeros(n)]>>, 0, 0, 0) :
        sz \in ExtSizeFields, n \in {0, 6},
        fs \in { f \in FrameLists : Len(f) <= 1 } }

\* a candidate the locator rejects (version 5) that announces 127 bytes
RejHdr == <<73, 68, 51, 5, 0, 0, 0, 0, 0, 127>>

\* overwritten header bytes that make the locator reject a block: version,
\* revision, flags, and each size byte
RejectMuts ==
    { <<4, 5>>, <<4, 2>>, <<5, 255>>, <<6, 1>>, <<6, 255>>,
      <<7, 128>>, <<8, 128>>, <<9, 255>>, <<10, 128>> }

\* rejected candidates (none, or RejHdr, then a block with one header byte
\* overwritten) followed by a block written as described
RejectSrcs ==
    { Src(pre, <<>>, <<bad, good>>, 0, Len(pre) + m[1], m[2]) :
        pre \in {<<>>, RejHdr}, bad \in {B1, B2}, good \in {B1, B3},
        m \in RejectMuts }

SrcSet == RawSrcs \cup OneBlockSrcs \cup PaddedSrcs \cup TwoBlockSrcs
          \cup CutSrcs \cup MutSrcs \cup MutSecondSrcs
          \cup TightSrcs \cup ShortExtSrcs \cup ExtV23Srcs \cup RejectSrcs

(***************************************************************************)
(* Scan as a state machine.  pc: "scan" at the top of the loop of          *)
(* Scanner.Scan, "read" where it reads from r, "block" with a token,       *)
(* "frames" in the frames loop, "padding" after it, "end" when s.Scan()    *)
(* has returned false, "done" when Scan has returned.                      *)
(***************************************************************************)
ScanIdle ==
    /\ src = Src(<<>>, <<>>, <<>>, 0, 0, 0) /\ stream = <<>> /\ rest = <<>>
    /\ win = <<>> /\ serr = "nil" /\ pc = "off" /\ hdr = NoHdr /\ data = <<>>
    /\ frames = <<>> /\ retFrames = <<>> /\ retErr = "nil"

FnIdle == inp = <<>> /\ out = <<>> /\ phase = "off"

PoolIdle ==
    /\ pool = {} /\ held = <<>> /\ ppc = <<>> /\ puts = <<>> /\ nextBuf = 0

Init ==
    /\ src \in SrcSet
    /\ stream = StreamOf(src)
    /\ rest = stream
    /\ win = <<>> /\ serr = "nil" /\ pc = "scan" /\ hdr = NoHdr /\ data = <<>>
    /\ frames = <<>> /\ retFrames = <<>> /\ retErr = "nil"
    /\ FnIdle /\ PoolIdle

\* Scan returns nil and the error e
Fail(e) ==
    /\ pc' = "done" /\ retErr' = e /\ retFrames' = errFrames(frames)
    /\ UNCHANGED <<src, stream, rest, win, serr, hdr, data, frames>>

\* Scanner.Scan: the split function is given the buffered bytes
ScanSplit ==
    /\ pc = "scan"
    /\ Len(win) > 0 \/ serr # "nil"
    /\ LET r == id3Split(win, serr # "nil") IN
       IF r.err # "nil"
       THEN /\ serr' = r.err /\ pc' = "end"
            /\ UNCHANGED <<win, data>>
       ELSE IF r.emit
       THEN /\ win' = From(win, r.advance) /\ data' = r.token /\ pc' = "block"
            /\ UNCHANGED serr
       ELSE IF serr # "nil"
       THEN /\ win' = <<>> /\ pc' = "end" /\ UNCHANGED <<serr, data>>
       ELSE /\ win' = From(win, r.advance) /\ pc' = "read" /\ UNCHANGED <<serr, data>>
    /\ UNCHANGED <<src, stream, rest, hdr, frames, retFrames, retErr>>
    /\ UNCHANGED <<fnVars, poolVars>>

\* Scanner.Scan: r.Read delivers n bytes, the last ones possibly with io.EOF
ScanRead ==
    /\ pc = "read" \/ (pc = "scan" /\ Len(win) = 0 /\ serr = "nil")
    /\ \E n \in {0, 1, MaxRead, Len(rest)}, eof \in BOOLEAN :
         /\ n <= Len(rest)
         /\ n = 0 => eof
         /\ eof => n = Len(rest)
         /\ win' = win \o Upto(rest, n)
         /\ rest' = From(rest, n)
         /\ serr' = IF eof THEN "EOF" ELSE "nil"
    /\ pc' = "scan"
    /\ UNCHANGED <<src, stream, hdr, data, frames, retFrames, retErr>>
    /\ UNCHANGED <<fnVars, poolVars>>

\* header, footer and extended header of the block s.Bytes()
BlockHeader ==
    /\ pc = "block"
    /\ LET r == blockHeader(data) IN
       IF r.kind = "ok"
       THEN /\ hdr' = r.hdr /\ data' = r.data /\ pc' = "frames"
            /\ UNCHANGED <<src, stream, rest, win, serr, frames, retFrames, retErr>>
       ELSE Fail(r.err)
    /\ UNCHANGED <<fnVars, poolVars>>

\* one iteration of the frames loop
FrameStep ==
    /\ pc = "frames"
    /\ framesLoopCond(data)
    /\ LET r == frameStep(hdr.version, hdr.flags, data) IN
       IF r.kind = "err" THEN Fail(r.err)
       ELSE /\ IF r.kind = "break"
               THEN pc' = "padding" /\ UNCHANGED <<frames, data>>
               ELSE /\ frames' = appendFrame(frames, r.frame[1])
                    /\ data' = r.data /\ pc' = "frames"
            /\ UNCHANGED <<src, stream, rest, win, serr, hdr, retFrames, retErr>>
    /\ UNCHANGED <<fnVars, poolVars>>

\* the frames loop ends on its condition
FramesExit ==
    /\ pc = "frames"
    /\ ~framesLoopCond(data)
    /\ pc' = "padding"
    /\ UNCHANGED <<src, stream, rest, win, serr, hdr, data, frames, retFrames, retErr>>
    /\ UNCHANGED <<fnVars, poolVars>>

\* the footer and padding checks, then the next s.Scan()
Padding ==
    /\ pc = "padding"
    /\ LET e == paddingCheck(hdr.flags, data) IN
       IF e # "nil" THEN Fail(e)
       ELSE /\ pc' = "scan" /\ data' = <<>> /\ hdr' = NoHdr
            /\ UNCHANGED <<src, stream, rest, win, serr, frames, retFrames, retErr>>
    /\ UNCHANGED <<fnVars, poolVars>>

\* after the loop: s.Err()
ScanEnd ==
    /\ pc = "end"
    /\ pc' = "done"
    /\ retErr' = scannerErr(serr)
    /\ retFrames' = IF scannerErr(serr) # "nil" THEN errFrames(frames) ELSE frames
    /\ UNCHANGED <<src, stream, rest, win, serr, hdr, data, frames>>
    /\ UNCHANGED <<fnVars, poolVars>>

Next ==
    \/ ScanSplit \/ ScanRead \/ BlockHeader \/ FrameStep \/ FramesExit
    \/ Padding \/ ScanEnd

Spec == Init /\ [][Next]_vars

(***************************************************************************)
(* Properties of Scan.                                                      *)
(***************************************************************************)
Returned == pc = "done" /\ retErr # "panic"

\* "ID3" occurs in s
HasID3(s) == \E i \in 1..(Len(s) - 2) : s[i] = 73 /\ s[i + 1] = 68 /\ s[i + 2] = 51

\* the frames written into the blocks of d, in stream order
WrittenFrames(d) ==
    Flatten([k \in 1..Len(d.blocks) |->
        LET b == d.blocks[k] IN
        [j \in 1..Len(b.frames) |->
            LET f == b.frames[j] IN
            Frame(BEUint32(f.id), b.version,
                  IF b.version = Version24 /\ Stuffed(b.version, b.flags, f)
                  THEN BitClear(f.flags, FrameFlagV24Unsynchronisation) ELSE f.flags,
                  f.payload)]])

\* C1: whenever Scan returns an error, the frame sequence it returns is empty
C1_ErrorReturnsNoFrames ==
    (Returned /\ retErr # "nil") => retFrames = <<>>

\* an error after the frames of an earlier, fully decoded block were collected
C1_Witness ==
    /\ Returned /\ retErr = "invalid padding" /\ retFrames = <<>>
    /\ Len(frames) >= 2 /\ frames[1].Version # frames[2].Version

\* C3: a stream that decodes successfully yields exactly the frames written
\* into its blocks, in stream order, duplicates included
C3_FramesInStreamOrder ==
    (Returned /\ retErr = "nil" /\ Intact(src)) => retFrames = WrittenFrames(src)

\* two blocks decoded, with the same frame id in both
C3_Witness ==
    /\ Returned /\ retErr = "nil" /\ Intact(src) /\ Len(src.blocks) = 2
    /\ Len(retFrames) = 2 /\ retFrames[1].ID = retFrames[2].ID
    /\ retFrames[1].Data # retFrames[2].Data

\* C5: a stream without "ID3" yields no frames and no error
C5_NoSignatureNoFrames ==
    (pc = "done" /\ ~HasID3(stream)) => (retErr = "nil" /\ retFrames = <<>>)

\* a one-byte stream and a longer stream without the signature were scanned
C5_Witness == pc = "done" /\ ~HasID3(stream) /\ Len(stream) = 1

C5_WitnessLong == pc = "done" /\ ~HasID3(stream) /\ Len(stream) > 10

\* the 10-byte header h is one the locator accepts: version 3 or 4, revision
\* not 0xFF, no unknown flag, every size byte below 0x80
Acceptable(h) ==
    /\ h[4] \in {3, 4} /\ h[5] # 255
    /\ h[6] \in {a + b + c + e : a \in {0, 128}, b \in {0, 64}, c \in {0, 32}, e \in {0, 16}}
    /\ \A k \in 7..10 : h[k] < 128

\* the length of the block the acceptable header h announces
AnnouncedLen(h) ==
    10 + h[7] * Pow2(21) + h[8] * Pow2(14) + h[9] * Pow2(7) + h[10]
       + (IF (h[6] \div 16) % 2 = 1 THEN 10 ELSE 0)

\* the first "ID3" of d lacks bytes: fewer than 10 from its "I" on, or an
\* acceptable header that announces more bytes than d holds
TruncatedCandidate(d) ==
    \E i \in 1..(Len(d) - 2) :
        /\ SubSeq(d, i, i + 2) = <<73, 68, 51>>
        /\ ~HasID3(SubSeq(d, 1, i + 1))
        /\ \/ Len(d) - i + 1 < 10
           \/ /\ Len(d) - i + 1 >= 10
              /\ Acceptable(SubSeq(d, i, i + 9))
              /\ Len(d) - i + 1 < AnnouncedLen(SubSeq(d, i, i + 9))

\* C4: when the source has ended and the first remaining candidate lacks
\* bytes, the locator fails with unexpected-end-of-data and Scan returns that
\* error and no frames
C4_TruncatedFailsEOF ==
    [][ /\ (pc = "scan" /\ serr = "EOF" /\ TruncatedCandidate(win))
            => (pc' = "end" /\ serr' = "ErrUnexpectedEOF")
        /\ (pc = "end" /\ serr = "ErrUnexpectedEOF")
            => (pc' = "done" /\ retErr' = "ErrUnexpectedEOF" /\ retFrames' = <<>>)
      ]_vars

\* the error was returned for a block announced longer than the stream, after
\* the frames of an earlier block had been collected
C4_Witness ==
    /\ pc = "done" /\ retErr = "ErrUnexpectedEOF" /\ retFrames = <<>>
    /\ frames # <<>> /\ TruncatedCandidate(win) /\ Len(win) >= 10 /\ win[1] = 73

\* the error was returned for a candidate of fewer than 10 bytes
C4_WitnessShort ==
    /\ pc = "done" /\ retErr = "ErrUnexpectedEOF" /\ retFrames = <<>>
    /\ TruncatedCandidate(win) /\ Len(win) < 10

\* the stream is one block without footer, written as described
OneBlockNoFooter(d) ==
    /\ Intact(d) /\ Len(d.blocks) = 1 /\ d.pre = <<>> /\ d.gap = <<>>
    /\ ~hasFlag(d.blocks[1].flags, tagFlagFooter)

ZeroBytes(s) == \A k \in 1..Len(s) : s[k] = 0

\* C6 (as claimed): without footer, a tail of zero bytes after the last frame
\* decodes successfully and a tail with a non-zero byte fails with
\* invalid-padding
C6_PaddingAsClaimed ==
    (Returned /\ OneBlockNoFooter(src)) =>
        LET tail == src.blocks[1].pad IN
        /\ ZeroBytes(tail) => retErr = "nil"
        /\ ~ZeroBytes(tail) => retErr = "invalid padding"

\* the stream is one block, written as described, that ends with a frame of
\* declared size 0 and nothing after it
EndsWithEmptyFrame(d) ==
    /\ Intact(d) /\ Len(d.blocks) = 1 /\ d.pre = <<>> /\ d.gap = <<>>
    /\ d.blocks[1].pad = <<>> /\ d.blocks[1].frames # <<>>
    /\ d.blocks[1].frames[Len(d.blocks[1].frames)].payload = <<>>

\* C11 (as claimed): when the last 10 bytes of a block body are the header
\* of a frame of declared size 0, that frame is decoded and appended and the
\* block succeeds
C11_ZeroFrameAtEndDecoded ==
    (pc = "done" /\ EndsWithEmptyFrame(src)) =>
        (retErr = "nil" /\ retFrames = WrittenFrames(src))

\* the stream is one v2.3 block with the extended-header flag, written with
\* the size field and the bytes of src.blocks[1].ext
ExtV23(d) ==
    /\ d.cut = 0 /\ d.mutPos = 0 /\ Len(d.blocks) = 1 /\ d.pre = <<>> /\ d.gap = <<>>
    /\ d.blocks[1].version = Version23
    /\ d.blocks[1].flags = tagFlagExtendedHeader
    /\ Len(d.blocks[1].ext) >= 4

\* the body of the only block of d (no footer)
BodyOf(d) == From(EncBlock(d.blocks[1]), 10)

\* S + 4 > n for the 32-bit size field S, computed without wrapping
ExceedsPlus4(S, n) == S[1] > 0 \/ S[2] + 4 > n

\* C13 (as claimed): with S the big-endian size field of a v2.3 extended
\* header, Scan fails with invalid-extended-header when S + 4 exceeds the
\* body length, and otherwise enters the frames loop with exactly S + 4
\* bytes removed from the front of the body
C13_ExtendedHeaderNoWrap ==
    ExtV23(src) =>
        LET body == BodyOf(src)
            S == BEUint32(body)
        IN  /\ (pc = "done" /\ ExceedsPlus4(S, Len(body)))
                  => retErr = "invalid extended header size"
            /\ (pc = "frames" /\ frames = <<>>)
                  => (~ExceedsPlus4(S, Len(body)) /\ data = From(body, S[2] + 4))

\* the stream is rejected candidates followed by one block written as
\* described: the last block of src, the one before it having a header byte
\* overwritten
RejectedThenBlock(d) ==
    /\ d.cut = 0 /\ Len(d.blocks) = 2
    /\ d.mutPos > Len(d.pre) /\ d.mutPos <= Len(d.pre) + 10
    /\ ~Acceptable(SubSeq(StreamOf(d), Len(d.pre) + 1, Len(d.pre) + 10))

\* C14 (as claimed): a rejected candidate is never an error and never hides
\* a block that starts later in the stream: that block is found and decoded
C14_RejectedCandidateSkipped ==
    (pc = "done" /\ RejectedThenBlock(src)) =>
        /\ retErr = "nil"
        /\ retFrames = WrittenFrames([src EXCEPT !.blocks = Tail(src.blocks)])

\* C16 (as claimed): Scan returns frames or an error value and never crashes
C16_ScanNeverCrashes ==
    pc = "done" => retErr # "panic"

(***************************************************************************)
(* Scan on a reader that delivers the whole stream in its first Read and   *)
(* io.EOF in the second: the same steps as the actions above, with this    *)
(* one choice of reads.                                                     *)
(***************************************************************************)
ScanResult(fs, e) == [frames |-> fs, err |-> e]

\* the frames loop and the padding check on the remaining body d
RECURSIVE DecodeFrames(_, _, _, _)
DecodeFrames(version, tflags, d, fs) ==
    IF ~framesLoopCond(d)
    THEN ScanResult(fs, paddingCheck(tflags, d))
    ELSE LET r == frameStep(version, tflags, d) IN
         IF r.kind = "err" THEN ScanResult(fs, r.err)
         ELSE IF r.kind = "break" THEN ScanResult(fs, paddingCheck(tflags, d))
         ELSE DecodeFrames(version, tflags, r.data, appendFrame(fs, r.frame[1]))

\* the body of the for s.Scan() loop on the token t
DecodeBlock(t, fs) ==
    LET r == blockHeader(t) IN
    IF r.kind # "ok" THEN ScanResult(fs, r.err)
    ELSE DecodeFrames(r.hdr.version, r.hdr.flags, r.data, fs)

\* s.Scan() on the buffered bytes w, then the loop body, until s.Scan()
\* returns false
RECURSIVE ScanLoop(_, _, _)
ScanLoop(w, atEOF, fs) ==
    IF w = <<>> /\ ~atEOF THEN ScanLoop(w, TRUE, fs)
    ELSE
      LET r == id3Split(w, atEOF) IN
      IF r.err # "nil" THEN ScanResult(errFrames(fs), scannerErr(r.err))
      ELSE IF r.emit
      THEN LET b == DecodeBlock(r.token, fs) IN
           IF b.err # "nil" THEN ScanResult(errFrames(fs), b.err)
           ELSE ScanLoop(From(w, r.advance), atEOF, b.frames)
      ELSE IF atEOF THEN ScanResult(fs, "nil")
      ELSE ScanLoop(From(w, r.advance), TRUE, fs)

ScanOneRead(s) == ScanLoop(s, FALSE, <<>>)

\* C17 (as claimed): what Scan returns depends only on the bytes of the
\* stream, not on how the reader splits them into reads: every run returns
\* what the run with a single read returns
C17_ChunkingIndependent ==
    pc = "done" =>
        ScanResult(retFrames, retErr) = ScanOneRead(stream)

(***************************************************************************)
(* syncsafe applied to four bytes.                                          *)
(***************************************************************************)
SyncBytes == {0, 1, 64, 127, 128, 255}

InitSync ==
    /\ inp \in [1..4 -> SyncBytes] /\ out = <<>> /\ phase = "in"
    /\ ScanIdle /\ PoolIdle

CallSyncsafe ==
    /\ phase = "in"
    /\ out' = syncsafe(inp)
    /\ phase' = "out"
    /\ UNCHANGED <<inp, scanVars, poolVars>>

NextSync == CallSyncsafe

SpecSync == InitSync /\ [][NextSync]_vars

\* C10: for bytes below 0x80 syncsafe is b0*2^21 + b1*2^14 + b2*2^7 + b3, a
\* value below 2^28 whose 7-bit groups are the bytes again, and never the
\* sentinel; with any byte at or above 0x80 it is the sentinel
C10_Syncsafe ==
    phase = "out" =>
        IF \A k \in 1..4 : inp[k] < 128
        THEN /\ FitsInt(out)
             /\ IntOf(out) = inp[1] * Pow2(21) + inp[2] * Pow2(14) + inp[3] * Pow2(7) + inp[4]
             /\ IntOf(out) < Pow2(28)
             /\ SyncsafeEnc(IntOf(out)) = inp
             /\ out # syncsafeInvalid
        ELSE out = <<65535, 65535>>

\* the largest valid input was decoded, and an input invalid in its last byte
C10_Witness == phase = "out" /\ inp = <<127, 127, 127, 127>> /\ IntOf(out) = Pow2(28) - 1

C10_WitnessInvalid == phase = "out" /\ inp = <<0, 0, 0, 128>> /\ out = syncsafeInvalid

(***************************************************************************)
(* The unsynchronisation loop applied to a payload, as written and after   *)
(* a writer stuffed it.  The payload sits behind a 10-byte frame header    *)
(* and may be followed by more bytes of the body.                           *)
(***************************************************************************)
MaxPayload == 4

Payloads == UNION { [1..n -> {0, 1, 255}] : n \in 0..MaxPayload }

DestuffOn(Q, trail) == DestuffFrom(Zeros(10) \o Q \o trail, Len(Q), 0)

InitStuff ==
    /\ inp \in [P : Payloads, trail : {<<>>, <<0>>, <<0, 7>>}]
    /\ out = <<>> /\ phase = "in"
    /\ ScanIdle /\ PoolIdle

\* the payload is stuffed by a writer, then read by Scan
StuffDestuff ==
    /\ phase = "in"
    /\ out' = [disk |-> Stuff(inp.P), r |-> DestuffOn(Stuff(inp.P), inp.trail)]
    /\ phase' = "out"
    /\ UNCHANGED <<inp, scanVars, poolVars>>

\* the payload is read by Scan as it is
DestuffRaw ==
    /\ phase = "in"
    /\ out' = [disk |-> inp.P, r |-> DestuffOn(inp.P, inp.trail)]
    /\ phase' = "out"
    /\ UNCHANGED <<inp, scanVars, poolVars>>

NextStuff == StuffDestuff \/ DestuffRaw

SpecStuff == InitStuff /\ [][NextStuff]_vars

HasFF00(P) == \E k \in 1..(Len(P) - 1) : P[k] = 255 /\ P[k + 1] = 0

\* C7: destuffing a stuffed payload gives the payload back, destuffing a
\* payload without a 0xFF 0x00 pair leaves it as it is, and the loop reads
\* no byte at or beyond the end of the frame (10 + its declared size)
C7_DestuffInvertsStuff ==
    phase = "out" =>
        /\ out.disk = Stuff(inp.P) => out.r.Data = inp.P
        /\ (out.disk = inp.P /\ ~HasFF00(inp.P)) => out.r.Data = inp.P
        /\ \A k \in out.r.reads : k >= 10 /\ k < 10 + Len(out.disk)

\* a payload ending in 0xFF, followed in the body by 0x00, went through
C7_Witness ==
    /\ phase = "out" /\ inp.P = <<255, 0, 255>> /\ inp.trail = <<0>>
    /\ out.disk = <<255, 0, 0, 255, 0>> /\ out.r.Data = inp.P

C7_WitnessRaw ==
    /\ phase = "out" /\ inp.P = <<1, 255>> /\ inp.trail = <<0>>
    /\ out.disk = inp.P /\ out.r.Data = inp.P

(***************************************************************************)
(* Frames.Lookup.  A *Frame is the position of the frame in the slice,     *)
(* nil is 0.                                                                *)
(***************************************************************************)
MaxFrames == 3

\* the older ID3Frames.Lookup order: the first match
RECURSIVE LookupFirstFrom(_, _, _)
LookupFirstFrom(f, id, i) ==
    IF i >= Len(f) THEN 0
    ELSE IF f[i + 1].ID = id THEN i + 1
    ELSE LookupFirstFrom(f, id, i + 1)

LookupFirst(f, id) == LookupFirstFrom(f, id, 0)

\* the loop of Lookup at index i
RECURSIVE LookupFrom(_, _, _)
LookupFrom(f, id, i) ==
    IF ~(i >= 0) THEN 0
    ELSE IF f[i + 1].ID = id THEN i + 1
    ELSE LookupFrom(f, id, i - 1)

Lookup(f, id) == LookupFrom(f, id, Len(f) - 1)

FrameIDX == BEUint32(TIT2)
FrameIDY == BEUint32(TPE1)
FrameIDZ == BEUint32(<<84, 65, 76, 66>>)

LookupFrames ==
    { Frame(id, Version24, 0, <<3, v>>) : id \in {FrameIDX, FrameIDY}, v \in {65, 66} }

InitLookup ==
    /\ inp \in [f : UNION { [1..n -> LookupFrames] : n \in 0..MaxFrames },
                id : {FrameIDX, FrameIDY, FrameIDZ}]
    /\ out = <<>> /\ phase = "in"
    /\ ScanIdle /\ PoolIdle

CallLookup ==
    /\ phase = "in"
    /\ out' = Lookup(inp.f, inp.id)
    /\ phase' = "out"
    /\ UNCHANGED <<inp, scanVars, poolVars>>

NextLookup == CallLookup

SpecLookup == InitLookup /\ [][NextLookup]_vars

\* C2: Lookup returns the last frame of the sequence with the id, none when
\* no frame has it
C2_LookupLast ==
    phase = "out" =>
        LET hits == { k \in 1..Len(inp.f) : inp.f[k].ID = inp.id } IN
        IF hits = {} THEN out = 0
        ELSE out \in hits /\ \A k \in hits : k <= out

\* [A(id=X), B(id=Y), C(id=X)]: Lookup(X) returned C
C2_Witness ==
    /\ phase = "out" /\ Len(inp.f) = 3 /\ inp.id = FrameIDX
    /\ inp.f[1].ID = FrameIDX /\ inp.f[2].ID = FrameIDY /\ inp.f[3].ID = FrameIDX
    /\ inp.f[1].Data # inp.f[3].Data /\ out = 3

C2_WitnessNone == phase = "out" /\ Len(inp.f) = 2 /\ inp.id = FrameIDZ /\ out = 0

(***************************************************************************)
(* Frame.Text.  The string returned is its bytes.                          *)
(***************************************************************************)
MaxTextLen == 3

\* utf8.EncodeRune as string([]rune) applies it
EncodeRune(r) ==
    IF r < 128 THEN <<r>>
    ELSE IF r < 2048 THEN <<192 + (r \div 64), 128 + (r % 64)>>
    ELSE IF (r >= 55296 /\ r < 57344) \/ r > 1114111 THEN <<239, 191, 189>>
    ELSE IF r < 65536
    THEN <<224 + (r \div 4096), 128 + ((r \div 64) % 64), 128 + (r % 64)>>
    ELSE <<240 + (r \div 262144), 128 + ((r \div 4096) % 64), 128 + ((r \div 64) % 64),
           128 + (r % 64)>>

StringOfRunes(rs) == Flatten([k \in 1..Len(rs) |-> EncodeRune(rs[k])])

\* utf16.Decode
RECURSIVE Utf16Decode(_)
Utf16Decode(u) ==
    IF u = <<>> THEN <<>>
    ELSE
      LET r == Head(u) IN
      IF r < 55296 \/ r >= 57344 THEN <<r>> \o Utf16Decode(Tail(u))
      ELSE IF r < 56320 /\ Len(u) >= 2 /\ u[2] >= 56320 /\ u[2] < 57344
      THEN <<(r - 55296) * 1024 + (u[2] - 56320) + 65536>> \o Utf16Decode(Tail(Tail(u)))
      ELSE <<65533>> \o Utf16Decode(Tail(u))

\* ord.Uint16(data[i*2:])
Uint16At(d, i, ord) ==
    IF ord = "BigEndian" THEN d[2 * i + 1] * 256 + d[2 * i + 2]
    ELSE d[2 * i + 2] * 256 + d[2 * i + 1]

TextOk(bytes) == [err |-> "nil", str |-> bytes]
TextErr(e) == [err |-> e, str |-> <<>>]

DropLastZero(x) == IF Len(x) # 0 /\ x[Len(x)] = 0 THEN Upto(x, Len(x) - 1) ELSE x

\* the test of the UTF-16 cases on the bytes after the encoding byte (and BOM)
utf16OddWhole(d) == (Len(d) + 1) % 2 # 0

utf16Odd(d) == Len(d) % 2 # 0

\* case textEncodingUTF16BE, also reached from textEncodingUTF16
textUTF16(d, ord) ==
    IF utf16Odd(d) THEN TextErr("UTF-16 data is not even number of bytes")
    ELSE
      LET u16s == [i \in 1..(Len(d) \div 2) |-> Uint16At(d, i - 1, ord)] IN
      TextOk(StringOfRunes(Utf16Decode(DropLastZero(u16s))))

\* case textEncodingUTF8, also reached from textEncodingISO88591
textUTF8(d) == TextOk(DropLastZero(d))

Text(f) ==
    IF Len(f.Data) = 0 THEN TextErr("frame data is invalid")
    ELSE IF BitAnd(f.Flags, encodingFrameFlags) # 0
    THEN TextErr("encoding frame flags are not supported")
    ELSE
      LET d == From(f.Data, 1)
          enc == f.Data[1]
      IN
      IF enc = textEncodingISO88591
      THEN IF \E k \in 1..Len(d) : BitAnd(d[k], 128) # 0
           THEN TextOk(StringOfRunes(DropLastZero(d)))
           ELSE textUTF8(d)
      ELSE IF enc = textEncodingUTF8 THEN textUTF8(d)
      ELSE IF enc = textEncodingUTF16
      THEN IF Len(d) < 2 THEN TextErr("missing UTF-16 BOM")
           ELSE IF d[1] = 255 /\ d[2] = 254 THEN textUTF16(From(d, 2), "LittleEndian")
           ELSE IF d[1] = 254 /\ d[2] = 255 THEN textUTF16(From(d, 2), "BigEndian")
           ELSE TextErr("invalid UTF-16 BOM")
      ELSE IF enc = textEncodingUTF16BE THEN textUTF16(d, "BigEndian")
      ELSE TextErr("frame uses unsupported encoding")

TextBytes == {0, 65, 254, 255}

TextData ==
    { <<>>, <<3, 65, 66, 67>>, <<3, 65, 66, 67, 0>>, <<0, 201, 116, 233>>,
      <<1, 255, 254, 65, 0, 66, 0, 0, 0>>, <<2, 0, 65>>, <<2, 0, 65, 0>>,
      <<2, 216, 61, 222, 0>>, <<2, 216, 0, 0, 65>> }
    \cup { <<e>> \o t : e \in 0..4,
                        t \in UNION { [1..n -> TextBytes] : n \in 0..MaxTextLen } }

InitText ==
    /\ inp \in { Frame(FrameIDX, Version24, fl, d) : fl \in {0, 1, 16384}, d \in TextData }
    /\ out = <<>> /\ phase = "in"
    /\ ScanIdle /\ PoolIdle

CallText ==
    /\ phase = "in"
    /\ out' = Text(inp)
    /\ phase' = "out"
    /\ UNCHANGED <<inp, scanVars, poolVars>>

NextText == CallText

SpecText == InitText /\ [][NextText]_vars

EncodingFlagsClear(f) == f.Flags % 256 = 0

\* C8 (as claimed): Text on Data 02 00 41 with no encoding flag returns an error
C8_OddLengthAsClaimed ==
    (phase = "out" /\ EncodingFlagsClear(inp) /\ inp.Data = <<2, 0, 65>>)
        => out.err # "nil"

\* C8 (amended): with no encoding flag set and encoding byte 02, Text fails
\* exactly when the number of bytes after the encoding byte is odd; on
\* 02 00 41 those are two bytes and Text returns "A" and no error, on
\* 02 00 41 00 they are three and Text returns the error
C8_OddPayloadFails ==
    (phase = "out" /\ EncodingFlagsClear(inp) /\ Len(inp.Data) > 0 /\ inp.Data[1] = 2) =>
        /\ (out.err # "nil") <=> ((Len(inp.Data) - 1) % 2 = 1)
        /\ out.err # "nil" => out.err = "UTF-16 data is not even number of bytes"
        /\ inp.Data = <<2, 0, 65>> => out = [err |-> "nil", str |-> <<65>>]
        /\ inp.Data = <<2, 0, 65, 0>> => out.err # "nil" /\ out.str = <<>>

C8_Witness ==
    /\ phase = "out" /\ EncodingFlagsClear(inp) /\ inp.Data = <<2, 0, 65>>
    /\ out.err = "nil" /\ out.str = <<65>>

(***************************************************************************)
(* Concurrent Scan calls and bufPool.  Each invocation p runs Scan again   *)
(* and again: bufPool.Get(), the deferred bufPool.Put(buf), the decoding,  *)
(* which ends on one of Scan's exit paths, and the return, which runs the  *)
(* deferred Put.  A sync.Pool may hand out any buffer it holds or allocate *)
(* a new one with New, and may drop buffers it holds at any time.          *)
(***************************************************************************)
NProcs == 3     \* concurrent invocations
MaxBufs == 3    \* buffers New allocates before the pool must serve a Get

Procs == 1..NProcs

ExitPaths == {"success", "structural error", "truncation error"}

InitPool ==
    /\ pool = {} /\ nextBuf = 0
    /\ held = [p \in Procs |-> 0]
    /\ ppc = [p \in Procs |-> "idle"]
    /\ puts = [p \in Procs |-> 0]
    /\ ScanIdle /\ FnIdle

\* whether the return on exit path e runs bufPool.Put(buf): the Put is deferred
deferredPutOnSuccessOnly(e) == e = "success"

deferredPut(e) == TRUE

\* buf := bufPool.Get(), a buffer of the pool
PoolGetPooled(p) ==
    /\ ppc[p] \in {"idle", "returned"}
    /\ \E b \in pool :
         /\ pool' = pool \ {b}
         /\ held' = [held EXCEPT ![p] = b]
    /\ ppc' = [ppc EXCEPT ![p] = "running"]
    /\ puts' = [puts EXCEPT ![p] = 0]
    /\ UNCHANGED <<nextBuf, scanVars, fnVars>>

\* buf := bufPool.Get(), a buffer New allocates
PoolGetNew(p) ==
    /\ ppc[p] \in {"idle", "returned"}
    /\ nextBuf < MaxBufs
    /\ nextBuf' = nextBuf + 1
    /\ held' = [held EXCEPT ![p] = nextBuf + 1]
    /\ ppc' = [ppc EXCEPT ![p] = "running"]
    /\ puts' = [puts EXCEPT ![p] = 0]
    /\ UNCHANGED <<pool, scanVars, fnVars>>

\* the decoding reaches a return statement
ScanExit(p) ==
    /\ ppc[p] = "running"
    /\ \E e \in ExitPaths : ppc' = [ppc EXCEPT ![p] = e]
    /\ UNCHANGED <<pool, held, puts, nextBuf, scanVars, fnVars>>

\* Scan returns: the deferred call runs
ScanReturn(p) ==
    /\ ppc[p] \in ExitPaths
    /\ IF deferredPut(ppc[p])
       THEN /\ pool' = pool \cup {held[p]}
            /\ puts' = [puts EXCEPT ![p] = puts[p] + 1]
       ELSE UNCHANGED <<pool, puts>>
    /\ held' = [held EXCEPT ![p] = 0]
    /\ ppc' = [ppc EXCEPT ![p] = "returned"]
    /\ UNCHANGED <<nextBuf, scanVars, fnVars>>

\* the runtime drops a pooled buffer
PoolDrop ==
    /\ \E b \in pool : pool' = pool \ {b}
    /\ UNCHANGED <<held, ppc, puts, nextBuf, scanVars, fnVars>>

NextPool ==
    \/ \E p \in Procs : PoolGetPooled(p)
    \/ \E p \in Procs : PoolGetNew(p)
    \/ \E p \in Procs : ScanExit(p)
    \/ \E p \in Procs : ScanReturn(p)
    \/ PoolDrop

SpecPool == InitPool /\ [][NextPool]_vars

\* C9: no buffer is held by two invocations at once or held while pooled, an
\* invocation inside Scan holds a buffer it has not put back, and an
\* invocation that has returned has put its buffer back exactly once
C9_PoolExclusiveAndReturned ==
    /\ \A p \in Procs, q \in Procs : (p # q /\ held[p] # 0) => held[p] # held[q]
    /\ \A p \in Procs : held[p] # 0 => held[p] \notin pool
    /\ \A p \in Procs :
         /\ ppc[p] \in {"running"} \cup ExitPaths => (held[p] # 0 /\ puts[p] = 0)
         /\ ppc[p] = "returned" => (held[p] = 0 /\ puts[p] = 1)

\* two invocations run at once, one on a buffer another invocation returned
\* after an error
C9_Witness ==
    /\ ppc[1] = "returned" /\ puts[1] = 1
    /\ ppc[2] = "running" /\ held[2] = 1
    /\ ppc[3] = "truncation error" /\ held[3] = 2

(***************************************************************************)
(* One iteration of the frames loop, on every remaining body made of an    *)
(* id pattern, the size of the payload, a flags field, a payload and the   *)
(* bytes after it.                                                          *)
(***************************************************************************)
IdPatterns ==
    { TIT2, <<48, 57, 65, 90>>, <<84, 73, 84, 0>>, <<0, 0, 0, 0>>,
      <<84, 73, 84, 97>>, <<0, 73, 84, 50>>, <<84, 0, 0, 0>>, <<84, 73, 84, 32>>,
      <<84, 73, 0, 50>>, <<64, 73, 84, 50>>, <<84, 73, 84, 91>>, <<47, 73, 84, 50>>,
      <<84, 58, 84, 50>> }

FrameFlagVals == {0, 1, 2, 3, 16386, 65533, 65535}

FramePayloads == {<<>>, <<1>>, <<255, 0>>, <<255, 0, 7>>}

FrameTrails == {<<>>, <<0>>, <<0, 1>>}

FrameBody(version, id, fflags, payload, trail) ==
    id \o (IF version = Version24 THEN SyncsafeEnc(Len(payload)) ELSE BEEnc(Len(payload)))
       \o <<fflags \div 256, fflags % 256>> \o payload \o trail

InitFrame ==
    /\ \E v \in {Version23, Version24}, tf \in {0, tagFlagUnsynchronisation},
          id \in IdPatterns, ff \in FrameFlagVals, P \in FramePayloads,
          tr \in FrameTrails :
          /\ inp = [version |-> v, tflags |-> tf, fflags |-> ff,
                    d |-> FrameBody(v, id, ff, P, tr)]
          /\ framesLoopCond(inp.d)
    /\ out = <<>> /\ phase = "in"
    /\ ScanIdle /\ PoolIdle

CallFrameStep ==
    /\ phase = "in"
    /\ out' = frameStep(inp.version, inp.tflags, inp.d)
    /\ phase' = "out"
    /\ UNCHANGED <<inp, scanVars, poolVars>>

NextFrame == CallFrameStep

SpecFrame == InitFrame /\ [][NextFrame]_vars

\* what the loop made of the four id bytes
Classified(r) ==
    IF r.kind = "break" THEN "padding"
    ELSE IF r.err = "invalid frame id" THEN "invalid"
    ELSE "identifier"

\* C12 (as claimed): the four id bytes are an identifier exactly when all
\* are in [A-Z0-9] (its value their big-endian packing), padding that ends
\* the loop exactly when all are zero, and invalid-frame-id otherwise
C12_FrameIdThreeWays ==
    phase = "out" =>
        LET four == Upto(inp.d, 4)
            claimed == IF \A k \in 1..4 : validIDByte(four[k]) THEN "identifier"
                       ELSE IF \A k \in 1..4 : four[k] = 0 THEN "padding"
                       ELSE "invalid"
        IN  /\ Classified(out) = claimed
            /\ out.kind = "frame" => out.frame[1].ID = BEUint32(four)

\* bit k of the 16-bit flags x
FlagBit(x, k) == (x \div Pow2(k)) % 2

\* the frame at the head of inp.d is one whose payload Scan destuffs
Destuffed(i) ==
    \/ (i.tflags \div 128) % 2 = 1
    \/ (i.version = 4 /\ FlagBit(i.fflags, 1) = 1)

\* C15: a v2.4 frame whose payload was destuffed is stored with the
\* frame-level unsynchronisation bit clear and every other flag bit as on
\* disk; every other frame keeps its 16 on-disk flag bits
C15_StoredFrameFlags ==
    (phase = "out" /\ out.kind = "frame") =>
        LET stored == out.frame[1].Flags IN
        IF inp.version = 4 /\ Destuffed(inp)
        THEN /\ FlagBit(stored, 1) = 0
             /\ \A k \in (0..15) \ {1} : FlagBit(stored, k) = FlagBit(inp.fflags, k)
        ELSE stored = inp.fflags

\* a v2.4 frame with all 16 flag bits set, destuffed under the tag-level
\* flag, was stored with the one bit cleared and its payload destuffed
C15_Witness ==
    /\ phase = "out" /\ out.kind = "frame"
    /\ inp.version = 4 /\ inp.tflags = 128 /\ inp.fflags = 65535
    /\ out.frame[1].Flags = 65533 /\ out.frame[1].Data = <<255, 7>>

\* a v2.3 frame destuffed under the tag-level flag kept the bit
C15_WitnessV23 ==
    /\ phase = "out" /\ out.kind = "frame"
    /\ inp.version = 3 /\ inp.tflags = 128 /\ inp.fflags = 3
    /\ out.frame[1].Flags = 3 /\ out.frame[1].Data = <<255, 7>>

(***************************************************************************)
(* The scanner's buffer.  Scan hands bufio.Scanner a pooled buffer and a   *)
(* maximum token size; the scanner shifts, doubles and fills the buffer    *)
(* until id3Split can emit.  Blocks of up to 2^28 + 19 bytes are modelled  *)
(* by lengths: the stream is inp.junk bytes without a signature, one block *)
(* with an acceptable header of size bytes inp.size, then other bytes up   *)
(* to inp.total; out holds the scanner's fields.                            *)
(***************************************************************************)
bufSize == 4096

maxTokenSizeOld == Pow2(28)

maxTokenSize == 20 + Pow2(28)

MaxSmallReads == 12    \* single-byte reads are delivered up to this offset
MaxJunk == 3           \* bytes before the block

\* the length of the block the locator emits for the size bytes sz
BlockLen(sz, footer) ==
    10 + IntOf(IF footer THEN U32Add(syncsafe(sz), 10) ELSE syncsafe(sz))

\* id3Split on the w buffered bytes that start at offset pos of the stream
id3SplitLen(i, pos, w, atEOF) ==
    LET sig == i.junk - pos
        avail == w - sig
    IN  IF pos > i.junk \/ avail < 3
        THEN (IF w < 2 THEN NoToken(0) ELSE NoToken(w - 2))
        ELSE IF avail < 10 THEN id3SplitShort(sig, atEOF)
        ELSE IF avail < BlockLen(i.size, i.footer) THEN id3SplitShort(sig, atEOF)
        ELSE Token(sig + BlockLen(i.size, i.footer), <<>>)

BufSizeFields == { <<0, 0, 0, 0>>, <<0, 0, 31, 118>>, <<0, 0, 32, 0>>,
                   <<0, 1, 0, 0>>, <<127, 127, 127, 127>> }

InitBuf ==
    /\ \E j \in {0, MaxJunk, bufSize - 1}, sz \in BufSizeFields,
          footer \in BOOLEAN, after \in {-1, 0, 5} :
          inp = [junk |-> j, size |-> sz, footer |-> footer,
                 total |-> j + BlockLen(sz, footer) + after]
    /\ out = [buf |-> bufSize, start |-> 0, end |-> 0, pos |-> 0, got |-> 0,
              err |-> "nil", tokens |-> 0]
    /\ phase = "scan"
    /\ ScanIdle /\ PoolIdle

\* Scanner.Scan: the split function is given the buffered bytes
BufSplit ==
    /\ phase = "scan"
    /\ out.end > out.start \/ out.err # "nil"
    /\ LET r == id3SplitLen(inp, out.pos, out.end - out.start, out.err # "nil") IN
       IF r.err # "nil"
       THEN /\ out' = [out EXCEPT !.err = r.err] /\ phase' = "done"
       ELSE IF r.emit
       THEN /\ out' = [out EXCEPT !.start = @ + r.advance, !.pos = @ + r.advance,
                                  !.tokens = @ + 1]
            /\ phase' = "scan"
       ELSE IF out.err # "nil"
       THEN /\ out' = [out EXCEPT !.start = 0, !.end = 0] /\ phase' = "done"
       ELSE /\ out' = [out EXCEPT !.start = @ + r.advance, !.pos = @ + r.advance]
            /\ phase' = "fill"
    /\ UNCHANGED <<inp, scanVars, poolVars>>

\* Scanner.Scan: shift the data to the front, double a full buffer up to
\* the maximum token size, then read
BufFill ==
    /\ phase = "fill" \/ (phase = "scan" /\ out.end = out.start /\ out.err = "nil")
    /\ LET shift == out.start > 0
                    /\ (out.end = out.buf \/ out.start > out.buf \div 2)
           s1 == IF shift THEN 0 ELSE out.start
           e1 == IF shift THEN out.end - out.start ELSE out.end
           full == e1 = out.buf
           buf1 == IF ~full THEN out.buf
                   ELSE IF 2 * out.buf < maxTokenSize THEN 2 * out.buf
                   ELSE maxTokenSize
           s2 == IF full THEN 0 ELSE s1
           e2 == IF full THEN e1 - s1 ELSE e1
           left == inp.total - out.got
           room == buf1 - e2
           most == IF left < room THEN left ELSE room
       IN  IF full /\ out.buf >= maxTokenSize
           THEN /\ out' = [out EXCEPT !.start = s1, !.end = e1, !.err = "ErrTooLong"]
                /\ phase' = "done"
           ELSE /\ \E n \in {0, 1, most}, eof \in BOOLEAN :
                     /\ n <= most
                     /\ n = 0 => eof
                     /\ eof => n = left
                     /\ n = 1 /\ most > 1 => out.got < MaxSmallReads
                     /\ out' = [out EXCEPT !.buf = buf1, !.start = s2, !.end = e2 + n,
                                           !.got = @ + n,
                                           !.err = IF eof THEN "EOF" ELSE "nil"]
                /\ phase' = "scan"
    /\ UNCHANGED <<inp, scanVars, poolVars>>

NextBuf == BufSplit \/ BufFill

SpecBuf == InitBuf /\ [][NextBuf]_vars

\* C18: a block with an acceptable header is at most 10 + (2^28 - 1) + 10
\* bytes, which is within the buffer's ceiling, and the scanner ends with
\* the block emitted or with unexpected-end-of-data, never with the
\* buffer-limit error
C18_CeilingAdmitsEveryBlock ==
    /\ BlockLen(inp.size, inp.footer) <= 10 + (Pow2(28) - 1) + 10
    /\ 10 + (Pow2(28) - 1) + 10 <= maxTokenSize
    /\ out.err # "ErrTooLong"
    /\ phase = "done" =>
         IF inp.total >= inp.junk + BlockLen(inp.size, inp.footer)
         THEN out.tokens = 1 /\ out.err = "EOF"
         ELSE out.tokens = 0 /\ out.err = "ErrUnexpectedEOF"

\* the largest block, 2^28 + 19 bytes behind other bytes, was emitted from a
\* buffer grown to the ceiling
C18_Witness ==
    /\ phase = "done" /\ out.tokens = 1
    /\ BlockLen(inp.size, inp.footer) = Pow2(28) + 19 /\ inp.junk > 0
    /\ out.buf = maxTokenSize

\* the largest block, cut short by one byte, failed with unexpected-end-of-data
C18_WitnessTruncated ==
    /\ phase = "done" /\ out.err = "ErrUnexpectedEOF"
    /\ BlockLen(inp.size, inp.footer) = Pow2(28) + 19
    /\ inp.total < inp.junk + Pow2(28) + 19

====
